---------------------------- MODULE Spec2Model ----------------------------
(***************************************************************************)
(* A model of the delegatooor bot: the transaction-queue normalizer, the   *)
(* execution gate of the four execution commands, the scheduler tick with  *)
(* its bounded-retry execution loop and circuit breaker, the pause flag,   *)
(* and the checkpointed deposit probe.                                     *)
(*                                                                         *)
(* Specifications:                                                         *)
(*   SpecNorm   filter_and_sort_pending_transactions on every bounded feed *)
(*   Spec       the scheduler tick, the execution commands, pause/resume   *)
(*              and the report command, interleaved at their await points  *)
(*   SpecProbe  deposit probes run one after another against the chain     *)
(*   SpecOverlap the tick's and the report command's probe, overlapping     *)
(*   SpecScan   the chunked scans of the history and the export command     *)
(*   SpecReq    the two request helpers with retries                        *)
(*   SpecDaily  the scheduler's ticks over several days, with the clock     *)
(*   SpecDecode decode_hex_data on calldata of every shape                  *)
(*   SpecExec   execute_transaction inside the tick's retry loop            *)
(*   SpecSig    collect_and_sort_signatures on every order of confirmations *)
(***************************************************************************)
EXTENDS Integers, Sequences, FiniteSets, TLC

VARIABLES
    arg,          \* SpecNorm: the argument a pure function is applied to
    ret,          \* SpecNorm: [done, val], its result once it has been called
    paused,       \* main.py: the module-level pause flag
    tripped,      \* history: the circuit breaker fired and no resume came since
    tpc,          \* periodic_recheck: where the tick is suspended
    tAttempts,    \* periodic_recheck: attempts
    tPolls,       \* periodic_recheck: one-second sleeps done in this cooldown
    tTx,          \* periodic_recheck: transaction (re-fetched by nonce)
    tNonce,       \* periodic_recheck: nonce (of the lowest pending record)
    tBalance,     \* periodic_recheck: what get_staking_balance returned
    tReport,      \* periodic_recheck: full_report is not None
    tAlert,       \* history: this tick's probe alerted ("alerted"), and a
                  \* resume came after that ("resumed"); this tick's probe
                  \* failed and the queue is not fetched yet ("failed")
    cpc,          \* _run_execute_command: where the command is suspended
    cVariant,     \* _run_execute_command: which of the four commands runs
    rpc,          \* report command: where it is suspended
    ev,           \* history: what the last step called, sent or broadcast
    checkpoint,   \* last_scanned_block.json: last_scanned_block, NoBlock if absent
    head,         \* the chain: latest block number
    logs,         \* the chain: the Deposit events, as [blockNumber, amount]
    lookback,     \* the chain: the block closest before now - 3900 seconds
    ppc,          \* run_deposit_probe: where the probe stands
    pOld,         \* run_deposit_probe: old_persisted_block
    pStart,       \* run_deposit_probe: start_block
    pLatest,      \* check_large_deposits_with_block: latest_block
    pRet,         \* run_deposit_probe: the tuple the last probe returned
    oPc,          \* SpecOverlap: per caller, where its run_deposit_probe stands
    oOld,         \* SpecOverlap: per caller, old_persisted_block
    oStart,       \* SpecOverlap: per caller, start_block
    oRet,         \* SpecOverlap: per caller, what the check returned
    oFirst,       \* history: the stored checkpoint after the first save of
                  \* two probes that overlap, NoBlock outside such a pair
    spc,          \* chunked scan: where it stands
    sKind,        \* chunked scan: "history" or "csv"
    sStart,       \* chunked scan: start_block
    sLatest,      \* chunked scan: latest_block
    sCur,         \* chunked scan: current_start_block
    sChunk,       \* chunked scan: BLOCK_CHUNK_SIZE, which the scan lowers
    sRetries,     \* chunked scan: retries
    sCollected,   \* chunked scan: the ranges whose logs went into deposits
    sDropped,     \* history: the ranges left behind after RETRY_LIMIT failures
    sResult,      \* chunked scan: how the scan ended
    sOut,         \* chunked scan: what it returned, [alert, deposits]
    now,          \* the clock: [date, after9], the UTC date and whether
                  \* it is 09:00 or later on that date
    LAST_DAILY_REPORT_DATE,   \* main.py: NoDate for None
    dailySent,    \* history: per date, the daily summaries broadcast
    ranAfter9,    \* history: the dates a tick's finally block ran on at
                  \* or after 09:00
    xpc,          \* SpecExec: where the tick's execution loop stands
    xTx,          \* SpecExec: transaction, the record handed to execute_transaction
    xAttempts,    \* SpecExec: periodic_recheck's attempts
    xTry,         \* SpecExec: execute_transaction's attempt
    xSends,       \* history: calls of send_raw_transaction in this tick
    xArgs         \* history: the arguments of the last execTransaction call sent

normVars   == <<arg, ret>>
engineVars == <<paused, tripped, tpc, tAttempts, tPolls, tTx, tNonce, tBalance,
                tReport, tAlert, cpc, cVariant, rpc, ev>>
overlapVars == <<oPc, oOld, oStart, oRet, oFirst>>
probeVars  == <<checkpoint, head, logs, lookback, ppc, pOld, pStart, pLatest, pRet,
                overlapVars>>
scanVars   == <<spc, sKind, sStart, sLatest, sCur, sChunk, sRetries, sCollected,
                sDropped, sResult, sOut>>
dailyVars  == <<now, LAST_DAILY_REPORT_DATE, dailySent, ranAfter9>>
execVars   == <<xpc, xTx, xAttempts, xTry, xSends, xArgs>>
vars       == <<normVars, engineVars, probeVars, scanVars, dailyVars, execVars>>

(***************************************************************************)
(* Bounds of the model.                                                    *)
(***************************************************************************)
\* longest feed the normalizer is applied to under SpecNorm
MaxLen == 3
\* longest feed the Safe API returns to a tick or a command under Spec
MaxFeed == 2
\* nonces, submission dates and confirmation counts of the records of a feed
\* the last UTC date the clock reaches under SpecDaily
MaxDay == 2
Nonces == {1, 2}
Dates == {1, 2}
ConfCounts == {1, 2}
Thresholds == {2}

(***************************************************************************)
(* Calldata: a hex string, made of the 4-byte selector and the 32-byte     *)
(* words that follow it; hex is FALSE when the string is not made of an    *)
(* even number of hex digits.  Three payloads stand for the three ways the *)
(* gate sees a record's data: empty, present but not decodable as          *)
(* (uint256, uint256), and decodable.  Token amounts are counted in        *)
(* hundredths of a token.                                                  *)
(***************************************************************************)
Calldata(selector, words, hex) == [selector |-> selector, words |-> words, hex |-> hex]

PayAmount == 200

\* "d9a34952": "delegate", the call the bot is there to execute
DelegateSelector == "d9a34952"

NoData == Calldata("", <<>>, TRUE)
BadData == Calldata("deadbeef", <<>>, TRUE)
PayData == Calldata(DelegateSelector, <<7, PayAmount>>, TRUE)
DataVals == {NoData, BadData, PayData}

\* the falsy results: None when decoding raised, {} when there was no data
NoPayload == [ok |-> FALSE, validatorId |-> 0, amountInTokens |-> 0]

\* decode(['uint256', 'uint256'], decode_hex(hex_data[8:])): decode_hex
\* raises on what is not hex, decode on fewer than 64 bytes; bytes after
\* the second word are left unread
decode(hex_data) ==
    IF hex_data.hex /\ Len(hex_data.words) >= 2
    THEN [raised |-> FALSE, params |-> <<hex_data.words[1], hex_data.words[2]>>]
    ELSE [raised |-> TRUE, params |-> <<>>]

\* the first 8 hex digits are skipped, whatever they are; every exception
\* ends in `return None`
decode_hex_data(hex_data) ==
    LET decoded == decode(hex_data)
    IN  IF decoded.raised
        THEN NoPayload
        ELSE [ok |-> TRUE, validatorId |-> decoded.params[1],
              amountInTokens |-> decoded.params[2]]

(***************************************************************************)
(* A record of the Safe transaction service.  confirmations is the number  *)
(* of entries of the record's confirmations list.                          *)
(***************************************************************************)
TxRecords ==
    [nonce : Nonces, isExecuted : BOOLEAN, submissionDate : Dates,
     confirmations : ConfCounts, confirmationsRequired : Thresholds,
     data : DataVals]

SeqsUpTo(S, n) == UNION {[1..k -> S] : k \in 0..n}

signature_count(tx) == tx.confirmations
confirmations_required(tx) == tx.confirmationsRequired

(***************************************************************************)
(* filter_and_sort_pending_transactions.  latest_transactions is the dict  *)
(* the loop builds, a function from the nonces seen so far to a record.    *)
(***************************************************************************)
Put(d, k, v) == [x \in (DOMAIN d) \cup {k} |-> IF x = k THEN v ELSE d[x]]

KeepsOldest(latest, tx) ==
    \/ tx.nonce \notin DOMAIN latest
    \/ tx.submissionDate < latest[tx.nonce].submissionDate

KeepsNewest(latest, tx) ==
    \/ tx.nonce \notin DOMAIN latest
    \/ tx.submissionDate > latest[tx.nonce].submissionDate

LatestStep(latest, tx) ==
    IF tx.isExecuted
    THEN Put(latest, tx.nonce, tx)
    ELSE IF KeepsNewest(latest, tx)
         THEN Put(latest, tx.nonce, tx)
         ELSE latest

RECURSIVE latest_transactions(_)
latest_transactions(transactions) ==
    IF transactions = <<>>
    THEN <<>>
    ELSE LatestStep(latest_transactions(SubSeq(transactions, 1, Len(transactions) - 1)),
                    transactions[Len(transactions)])

MinOf(S) == CHOOSE m \in S : \A x \in S : m <= x
MaxOf(S) == CHOOSE m \in S : \A x \in S : x <= m

RECURSIVE SortByNonce_descending(_, _)
SortByNonce_descending(latest, keys) ==
    IF keys = {}
    THEN <<>>
    ELSE <<latest[MaxOf(keys)]>> \o SortByNonce_descending(latest, keys \ {MaxOf(keys)})

RECURSIVE SortByNonce(_, _)
SortByNonce(latest, keys) ==
    IF keys = {}
    THEN <<>>
    ELSE <<latest[MinOf(keys)]>> \o SortByNonce(latest, keys \ {MinOf(keys)})

filter_and_sort_pending_transactions(transactions) ==
    LET latest == latest_transactions(transactions)
        kept   == {n \in DOMAIN latest : ~latest[n].isExecuted}
    IN  SortByNonce(latest, kept)

(***************************************************************************)
(* fetch_transaction_by_nonce: the first record of the feed with the       *)
(* nonce, NoTx (None) when there is none.                                  *)
(***************************************************************************)
NoTx ==
    [nonce |-> 0, isExecuted |-> FALSE, submissionDate |-> 0,
     confirmations |-> 0, confirmationsRequired |-> 0, data |-> NoData]

fetch_transaction_by_nonce_first(results, nonce) ==
    IF results = <<>> THEN NoTx ELSE results[1]

fetch_transaction_by_nonce(results, nonce) ==
    LET hits == {i \in DOMAIN results : results[i].nonce = nonce}
    IN  IF hits = {} THEN NoTx ELSE results[MinOf(hits)]

(***************************************************************************)
(* get_staking_balance and the rounding both callers apply to it:          *)
(*   staking_balance = round(staking_balance, 1) if staking_balance else 0 *)
(* Balances are in hundredths of a token; web3.from_wei returns a Decimal, *)
(* which round() rounds half to even.                                      *)
(***************************************************************************)
FailedBalance == -1
BalanceVals == {FailedBalance, 194, 196, 200}

Round1(b) ==
    LET r == b % 10
        base == b - r
    IN  IF r < 5 THEN base
        ELSE IF r > 5 THEN base + 10
        ELSE IF (base \div 10) % 2 = 0 THEN base ELSE base + 10

StakingBalance(raw) ==
    IF raw = FailedBalance \/ raw = 0 THEN 0 ELSE Round1(raw)

(***************************************************************************)
(* The gate.  Decoded is `decode_hex_data(hex_data) if hex_data else {}`;  *)
(* a failed decode and the empty dict are both falsy.                      *)
(***************************************************************************)
Variants == {"execute", "shikai", "bankai", "shukai9000"}

check_pause_shikai_too(v) == v \in {"execute", "shikai"}
check_pause(v) == v = "execute"
check_balance(v) == v \in {"execute", "shikai"}
allow_no_data_branch_bankai_too(v) == v \in {"bankai", "shukai9000"}
allow_no_data_branch(v) == v = "shukai9000"

Decoded(tx) == IF tx.data = NoData THEN NoPayload ELSE decode_hex_data(tx.data)
IsDecoded(tx) == Decoded(tx).ok
AmountOf(tx) == IF IsDecoded(tx) THEN Decoded(tx).amountInTokens ELSE 0

EnoughSignatures(tx) == signature_count(tx) >= confirmations_required(tx)

\* _run_execute_command, from the pending list to the balance check
CmdGate(v, lowest, raw) ==
    IF lowest = NoTx THEN "no_pending"
    ELSE IF ~allow_no_data_branch(v) /\ ~IsDecoded(lowest) THEN "decode_failed"
    ELSE IF ~EnoughSignatures(lowest) THEN "insufficient_signatures"
    ELSE IF check_balance(v) /\ StakingBalance(raw) < AmountOf(lowest)
         THEN "insufficient_balance"
    ELSE "pass"

\* periodic_recheck, from the else of `if paused:` to the call of
\* fetch_transaction_by_nonce
TickGate(lowest, raw) ==
    IF lowest = NoTx THEN "no_pending"
    ELSE IF ~IsDecoded(lowest) THEN "skipped_silently"
    ELSE IF ~EnoughSignatures(lowest) THEN "insufficient_signatures"
    ELSE IF ~(StakingBalance(raw) >= AmountOf(lowest)) THEN "insufficient_balance"
    ELSE "pass"

(***************************************************************************)
(* What one invocation sees of the Safe API: the feed returned by          *)
(* fetch_recent_transactions gives the lowest pending record, and the      *)
(* re-fetch by nonce gives the first record with that nonce, or None when  *)
(* the second request fails.                                               *)
(***************************************************************************)
Feeds == SeqsUpTo(TxRecords, MaxFeed)

Lowest(transactions) ==
    LET pending == filter_and_sort_pending_transactions(transactions)
    IN  IF pending = <<>> THEN NoTx ELSE pending[1]

FeedViews ==
    {<<Lowest(f), fetch_transaction_by_nonce(f, Lowest(f).nonce)>> : f \in Feeds}
    \cup {<<Lowest(f), NoTx>> : f \in Feeds}

(***************************************************************************)
(* execute_transaction with _wait_for_receipt: "ok" is a receipt with      *)
(* status 1, "reverted" a receipt with another status, "timeout" no        *)
(* receipt; "not_sent" is the None it returns when the record has no       *)
(* signature or when building or sending raised max_retries times.         *)
(***************************************************************************)
ExecOutcomes(tx) ==
    IF tx.confirmations = 0
    THEN {"not_sent"}
    ELSE {"ok", "reverted", "timeout", "not_sent"}

(***************************************************************************)
(* The history variable ev describes the step that led to the state.       *)
(***************************************************************************)
TxView(tx) ==
    [nonce |-> tx.nonce, confirmations |-> tx.confirmations,
     confirmationsRequired |-> tx.confirmationsRequired]

NoEv ==
    [kind |-> "none", by |-> "none", tx |-> TxView(NoTx), same |-> FALSE,
     res |-> "none", attempt |-> 0, msg |-> "none", decoded |-> FALSE,
     enough |-> FALSE, short |-> FALSE, pausedAtCall |-> FALSE, lowest |-> 0,
     probeFailed |-> FALSE]

\* nothing was submitted: the gate's reason is sent or printed
RejectEv(who, reason, lowest, raw) ==
    [NoEv EXCEPT !.kind = "reject", !.by = who, !.msg = reason,
                 !.lowest = lowest.nonce,
                 !.decoded = (lowest # NoTx /\ IsDecoded(lowest)),
                 !.enough = (lowest # NoTx /\ EnoughSignatures(lowest)),
                 !.short = (lowest # NoTx /\ raw < AmountOf(lowest))]

\* execute_transaction(tx) was called right after the gate passed `lowest`
GatedExecEv(who, lowest, raw, tx, res) ==
    [kind |-> "exec", by |-> who, tx |-> TxView(tx), same |-> (tx = lowest),
     res |-> res, attempt |-> 1, msg |-> "none",
     decoded |-> IsDecoded(lowest), enough |-> EnoughSignatures(lowest),
     short |-> (raw < AmountOf(lowest)), pausedAtCall |-> FALSE,
     lowest |-> lowest.nonce, probeFailed |-> FALSE]

\* execute_transaction(tx) was called again by the tick's loop
RetryExecEv(tx, nonce, n, res) ==
    [NoEv EXCEPT !.kind = "exec", !.by = "tick", !.tx = TxView(tx), !.res = res,
                 !.attempt = n, !.lowest = nonce]

(***************************************************************************)
(* Everything one run of the gate can end in, tabulated over the balance   *)
(* get_staking_balance may return, the feed the Safe API may hold and the  *)
(* outcome of execute_transaction.  A tick outcome is <<event, tx, nonce>>:*)
(* the re-fetched record and the nonce the loop keeps for its retries.     *)
(***************************************************************************)
CmdResults(v, raw, view) ==
    LET lowest == view[1]
        transaction == view[2]
        reason == CmdGate(v, lowest, raw)
    IN  IF reason # "pass"
        THEN {RejectEv(v, reason, lowest, raw)}
        ELSE IF transaction = NoTx
        THEN {RejectEv(v, "not_found", lowest, raw)}
        ELSE {[GatedExecEv(v, lowest, raw, transaction, res)
               EXCEPT !.msg = IF res = "ok" THEN "success" ELSE "failed"] :
              res \in ExecOutcomes(transaction)}

CmdOutcomes ==
    [v \in Variants |->
        UNION {CmdResults(v, raw, view) : raw \in BalanceVals, view \in FeedViews}]

TickResults(raw, view) ==
    LET lowest == view[1]
        transaction == view[2]
        reason == TickGate(lowest, raw)
    IN  IF reason # "pass"
        THEN {<<RejectEv("tick", reason, lowest, raw), NoTx, 0>>}
        ELSE IF transaction = NoTx
        THEN {<<RejectEv("tick", "not_found", lowest, raw), NoTx, 0>>}
        ELSE {<<GatedExecEv("tick", lowest, raw, transaction, res), transaction,
                lowest.nonce>> :
              res \in ExecOutcomes(transaction)}

TickOutcomes ==
    [raw \in BalanceVals |-> UNION {TickResults(raw, view) : view \in FeedViews}]

(***************************************************************************)
(* Initial states.                                                         *)
(***************************************************************************)
NoRet == [done |-> FALSE, val |-> <<>>]

InitNormIdle ==
    /\ arg = <<>>
    /\ ret = NoRet

InitEngine ==
    /\ paused = TRUE
    /\ tripped = FALSE
    /\ tpc = "idle"
    /\ tAttempts = 0
    /\ tPolls = 0
    /\ tTx = NoTx
    /\ tNonce = 0
    /\ tBalance = 0
    /\ tReport = FALSE
    /\ tAlert = "none"
    /\ cpc = "idle"
    /\ cVariant = "none"
    /\ rpc = "idle"
    /\ ev = NoEv

NoBlock == -1

NoProbeRet == [alert_triggered |-> FALSE, message |-> "none",
               start_block |-> NoBlock, new_last_block |-> NoBlock]

\* the two callers of run_deposit_probe: the scheduler tick and the report
\* command
Probers == {"tick", "report"}

InitOverlapIdle ==
    /\ oPc = [p \in Probers |-> "idle"]
    /\ oOld = [p \in Probers |-> NoBlock]
    /\ oStart = [p \in Probers |-> NoBlock]
    /\ oRet = [p \in Probers |-> NoProbeRet]
    /\ oFirst = NoBlock

InitProbeIdle ==
    /\ InitOverlapIdle
    /\ lookback = 0
    /\ checkpoint = NoBlock
    /\ head = 0
    /\ logs = {}
    /\ ppc = "idle"
    /\ pOld = NoBlock
    /\ pStart = NoBlock
    /\ pLatest = NoBlock
    /\ pRet = NoProbeRet

BLOCK_CHUNK_SIZE == 25000

DAILY_REPORT_UTC_HOUR == 9
NoDate == -1

\* the process has just started, LAST_DAILY_REPORT_DATE = None
InitDailyIdle ==
    /\ now = [date |-> 0, after9 |-> FALSE]
    /\ LAST_DAILY_REPORT_DATE = NoDate
    /\ dailySent = [d \in 0..MaxDay |-> 0]
    /\ ranAfter9 = {}

NoArgs == [sent |-> FALSE]

InitExecIdle ==
    /\ xpc = "idle"
    /\ xTx = NoArgs
    /\ xAttempts = 0
    /\ xTry = 0
    /\ xSends = 0
    /\ xArgs = NoArgs

NoOut == [alert |-> FALSE, deposits |-> <<>>]

InitScanIdle ==
    /\ spc = "idle"
    /\ sOut = NoOut
    /\ sKind = "none"
    /\ sStart = NoBlock
    /\ sLatest = NoBlock
    /\ sCur = NoBlock
    /\ sChunk = BLOCK_CHUNK_SIZE
    /\ sRetries = 0
    /\ sCollected = <<>>
    /\ sDropped = {}
    /\ sResult = "none"

(***************************************************************************)
(* SpecNorm: the normalizer applied once to a feed of at most MaxLen       *)
(* records, in every order.                                                *)
(***************************************************************************)
\* the normalizer reads nonce, isExecuted and submissionDate only
NormRecords == {t \in TxRecords : t.data = PayData}

InitNorm ==
    /\ arg \in SeqsUpTo(NormRecords, MaxLen)
    /\ ret = NoRet
    /\ InitEngine
    /\ InitProbeIdle
    /\ InitScanIdle
    /\ InitDailyIdle
    /\ InitExecIdle

Normalize ==
    /\ ~ret.done
    /\ ret' = [done |-> TRUE, val |-> filter_and_sort_pending_transactions(arg)]
    /\ UNCHANGED <<arg, engineVars, probeVars, scanVars, dailyVars, execVars>>

NextNorm == Normalize

SpecNorm == InitNorm /\ [][NextNorm]_vars

(***************************************************************************)
(* Spec: the scheduler tick (periodic_recheck).  Each action is one        *)
(* stretch of the coroutine between two awaits; execute_transaction and    *)
(* fetch_transaction_by_nonce are called without await, so the gate, the   *)
(* re-fetch and the first attempt are one step.                            *)
(***************************************************************************)
OtherThanTick == UNCHANGED <<cpc, cVariant, rpc, normVars, probeVars, scanVars, execVars>>
OtherThanFinally == OtherThanTick /\ UNCHANGED dailyVars

MAX_ATTEMPTS_one_more == 3 + 1
MAX_ATTEMPTS == 3
\* one-second sleeps of a cooldown (60 in main.py, scaled down)
CooldownPolls == 2

BreakerPaused == TRUE

\* where a return, or the end of the try statement, takes the tick
ReturnTo_past_finally == "idle"
ReturnTo == "finally"

TickReturn ==
    /\ tpc' = ReturnTo
    /\ tAttempts' = 0
    /\ tPolls' = 0
    /\ tTx' = NoTx
    /\ tNonce' = 0
    /\ tBalance' = 0

\* a loop that took "nothing was sent" for a success
Succeeded_unless_reverted(res) == res \in {"ok", "not_sent"}
\* `if isinstance(res, dict) and res.get("ok"):`; None (nothing sent) and
\* the dicts of a revert or a timeout fall through to `attempts += 1`
Succeeded(res) == res = "ok"

\* the outcome of one call of execute_transaction in the tick's loop
TickAfterAttempt(tx, nonce, n, res, event) ==
    IF Succeeded(res)
    THEN /\ TickReturn
         /\ ev' = [event EXCEPT !.msg = "success"]
         /\ UNCHANGED <<paused, tripped>>
    ELSE IF n < MAX_ATTEMPTS
    THEN /\ tpc' = "cooldown"
         /\ tAttempts' = n
         /\ tPolls' = 0
         /\ tTx' = tx
         /\ tNonce' = nonce
         /\ tBalance' = 0
         /\ ev' = [event EXCEPT !.msg = "retrying"]
         /\ UNCHANGED <<paused, tripped>>
    ELSE /\ TickReturn
         /\ paused' = BreakerPaused
         /\ tripped' = TRUE
         /\ ev' = [event EXCEPT !.msg = "reverted_alert"]

TickStart ==
    /\ OtherThanFinally
    /\ tpc = "idle"
    /\ tpc' = "probe"
    /\ ev' = NoEv
    /\ UNCHANGED <<paused, tripped, tAttempts, tPolls, tTx, tNonce, tBalance, tReport, tAlert>>

\* what run_deposit_probe hands back to the tick: an alert, no alert, or
\* the (False, message, start, None) of a check that could not resolve its
\* range or fetch its logs
ProbeResults == {"alert", "quiet", "failed"}

\* a tick that gave up when its probe failed
AfterFailedProbe_returns == "finally"
\* `if alert_triggered:` is false for a failed probe: the tick goes on to
\* the balance
AfterFailedProbe == "balance"

\* run_deposit_probe returned; its checkpoint is followed under SpecProbe
TickProbe ==
    /\ OtherThanFinally
    /\ tpc = "probe"
    /\ \E result \in ProbeResults :
         /\ tpc' = CASE result = "alert" -> "alert"
                      [] result = "quiet" -> "balance"
                      [] result = "failed" -> AfterFailedProbe
         /\ tAlert' = IF result = "failed" THEN "failed" ELSE tAlert
         /\ ev' = [NoEv EXCEPT !.probeFailed = (result = "failed")]
    /\ UNCHANGED <<paused, tripped, tAttempts, tPolls, tTx, tNonce, tBalance, tReport>>

AlertPauses_never == paused
\* `if not paused: paused = True`
AlertPauses == TRUE

\* the alert was broadcast, the flag is set
TickAlert ==
    /\ OtherThanFinally
    /\ tpc = "alert"
    /\ tpc' = "balance"
    /\ paused' = AlertPauses
    /\ tAlert' = "alerted"
    /\ ev' = [NoEv EXCEPT !.kind = "deposit_alert", !.by = "tick"]
    /\ UNCHANGED <<tripped, tAttempts, tPolls, tTx, tNonce, tBalance, tReport>>

TickBalance ==
    /\ OtherThanFinally
    /\ tpc = "balance"
    /\ tpc' = "fetch"
    /\ tBalance' \in BalanceVals
    /\ ev' = NoEv
    /\ UNCHANGED <<paused, tripped, tAttempts, tPolls, tTx, tNonce, tReport, tAlert>>

\* an exception in the try body, raised by the call the tick is suspended
\* in or by the code that follows it: caught, broadcast, then the finally
\* block
TickRaise ==
    /\ OtherThanFinally
    /\ tpc \in {"probe", "alert", "balance", "fetch"}
    /\ TickReturn
    /\ ev' = [NoEv EXCEPT !.kind = "error", !.by = "tick"]
    /\ UNCHANGED <<paused, tripped, tReport, tAlert>>

TickIgnoresPause == FALSE
TickSeesPause == paused

\* the queue was fetched: `if paused:`, else the gate, the re-fetch and the
\* first pass of `while attempts < 3`
TickFetch ==
    /\ OtherThanFinally
    /\ tpc = "fetch"
    /\ tReport' = TRUE
    /\ tAlert' = IF tAlert = "failed" THEN "none" ELSE tAlert
    /\ IF TickSeesPause
       THEN /\ TickReturn
            /\ ev' = [RejectEv("tick", "paused", NoTx, 0)
                         EXCEPT !.pausedAtCall = paused,
                                !.probeFailed = (tAlert = "failed")]
            /\ UNCHANGED <<paused, tripped>>
       ELSE \E o \in TickOutcomes[tBalance] :
              IF o[1].kind = "reject"
              THEN /\ TickReturn
                   /\ ev' = [o[1] EXCEPT !.probeFailed = (tAlert = "failed")]
                   /\ UNCHANGED <<paused, tripped>>
              ELSE TickAfterAttempt(o[2], o[3], 1, o[1].res,
                                    [o[1] EXCEPT !.pausedAtCall = paused,
                                                 !.probeFailed = (tAlert = "failed")])

PollIgnoresPause == FALSE
PollSeesPause == paused
\* a loop head that also held back while a manual command was at work
LoopSeesPause_or_command == paused \/ ev.by \in Variants
LoopSeesPause == paused

\* the cooldown: `if paused: break`, sleep(1); after the last sleep the
\* loop head: `if paused: return`, then the next attempt
TickPoll ==
    /\ OtherThanFinally
    /\ tpc = "cooldown"
    /\ UNCHANGED <<tReport, tAlert>>
    /\ IF tPolls < CooldownPolls
       THEN IF PollSeesPause
            THEN IF LoopSeesPause
                 THEN /\ TickReturn
                      /\ ev' = [NoEv EXCEPT !.kind = "pause_detected", !.by = "tick"]
                      /\ UNCHANGED <<paused, tripped>>
                 ELSE \E res \in ExecOutcomes(tTx) :
                        TickAfterAttempt(tTx, tNonce, tAttempts + 1, res,
                            [RetryExecEv(tTx, tNonce, tAttempts + 1, res)
                             EXCEPT !.pausedAtCall = paused])
            ELSE /\ tPolls' = tPolls + 1
                 /\ ev' = NoEv
                 /\ UNCHANGED <<paused, tripped, tpc, tAttempts, tTx, tNonce, tBalance>>
       ELSE IF LoopSeesPause
            THEN /\ TickReturn
                 /\ ev' = [NoEv EXCEPT !.kind = "pause_detected", !.by = "tick"]
                 /\ UNCHANGED <<paused, tripped>>
            ELSE \E res \in ExecOutcomes(tTx) :
                   TickAfterAttempt(tTx, tNonce, tAttempts + 1, res,
                       [RetryExecEv(tTx, tNonce, tAttempts + 1, res)
                             EXCEPT !.pausedAtCall = paused])

(***************************************************************************)
(* The finally block: the daily-report anchor.  The first time it runs at  *)
(* or after 09:00 it only records the date; afterwards it broadcasts the   *)
(* report (or the notice that the report failed to build) on the first     *)
(* run at or after 09:00 of a date other than the recorded one.            *)
(***************************************************************************)
\* now_utc >= target_today
AtOrAfterTarget == now.after9

DailyReportDue == AtOrAfterTarget /\ LAST_DAILY_REPORT_DATE # now.date

DailyReportEv ==
    [NoEv EXCEPT !.kind = "daily_report", !.by = "tick",
                 !.msg = IF tReport THEN "full_report" ELSE "failed_to_build"]

\* the finally block has run: the tick waits for the next hour
TickFinally ==
    /\ OtherThanTick
    /\ tpc = "finally"
    /\ tpc' = "idle"
    /\ tReport' = FALSE
    /\ tAlert' = "none"
    /\ now' = now
    /\ ranAfter9' = IF AtOrAfterTarget THEN ranAfter9 \cup {now.date} ELSE ranAfter9
    /\ IF LAST_DAILY_REPORT_DATE = NoDate
       THEN /\ LAST_DAILY_REPORT_DATE' = IF AtOrAfterTarget THEN now.date ELSE NoDate
            /\ dailySent' = dailySent
            /\ ev' = [NoEv EXCEPT !.kind = "finally", !.by = "tick"]
       ELSE IF DailyReportDue
       THEN /\ LAST_DAILY_REPORT_DATE' = now.date
            /\ dailySent' = [dailySent EXCEPT ![now.date] = @ + 1]
            /\ ev' = DailyReportEv
       ELSE /\ UNCHANGED <<LAST_DAILY_REPORT_DATE, dailySent>>
            /\ ev' = [NoEv EXCEPT !.kind = "finally", !.by = "tick"]
    /\ UNCHANGED <<paused, tripped, tAttempts, tPolls, tTx, tNonce, tBalance>>

\* the clock passes 09:00, or midnight
Tock ==
    /\ UNCHANGED <<normVars, engineVars, probeVars, scanVars, execVars>>
    /\ UNCHANGED <<LAST_DAILY_REPORT_DATE, dailySent, ranAfter9>>
    /\ IF now.after9
       THEN /\ now.date < MaxDay
            /\ now' = [date |-> now.date + 1, after9 |-> FALSE]
       ELSE now' = [now EXCEPT !.after9 = TRUE]

(***************************************************************************)
(* The execution commands (_run_execute_command).  The pause gate runs     *)
(* when the command starts; the rest runs after `await ctx.send(intro)`    *)
(* and has no await before the result is sent.                             *)
(***************************************************************************)
CmdSeesPause == paused

CmdStart(v) ==
    /\ UNCHANGED <<normVars, probeVars, scanVars, dailyVars, execVars>>
    /\ cpc = "idle"
    /\ IF check_pause(v) /\ CmdSeesPause
       THEN /\ UNCHANGED <<cpc, cVariant>>
            /\ ev' = [RejectEv(v, "paused", NoTx, 0) EXCEPT !.pausedAtCall = paused]
       ELSE /\ cpc' = "run"
            /\ cVariant' = v
            /\ ev' = [NoEv EXCEPT !.kind = "started", !.by = v,
                                  !.pausedAtCall = paused]
    /\ UNCHANGED <<paused, tripped, tpc, tAttempts, tPolls, tTx, tNonce, tBalance, tReport, tAlert, rpc>>

\* a command that tripped the breaker when its submission failed
AfterCommand_pausing(e) == paused \/ (e.kind = "exec" /\ e.res # "ok")
\* _run_execute_command never assigns paused: it only reads get_paused()
AfterCommand(e) == paused

\* the command ran to its end: one pass through the gate, at most one call
\* of execute_transaction, the result sent
CmdRun ==
    /\ UNCHANGED <<normVars, probeVars, scanVars, dailyVars, execVars>>
    /\ cpc = "run"
    /\ cpc' = "idle"
    /\ cVariant' = "none"
    /\ \E e \in CmdOutcomes[cVariant] :
         /\ ev' = [e EXCEPT !.pausedAtCall = paused]
         /\ paused' = AfterCommand(e)
    /\ UNCHANGED <<tripped, tpc, tAttempts, tPolls, tTx, tNonce, tBalance, tReport, tAlert, rpc>>

(***************************************************************************)
(* The operator's pause and resume commands, and the report command, which *)
(* pauses when its deposit probe raises an alert.                          *)
(***************************************************************************)
PauseValue_flipped == FALSE
PauseValue == TRUE
ResumeValue == FALSE

Pause ==
    /\ UNCHANGED <<normVars, probeVars, scanVars, dailyVars, execVars>>
    /\ paused' = PauseValue
    /\ ev' = [NoEv EXCEPT !.kind = "pause", !.by = "operator"]
    /\ UNCHANGED <<tripped, tpc, tAttempts, tPolls, tTx, tNonce, tBalance, tReport, tAlert, cpc, cVariant, rpc>>

Resume ==
    /\ UNCHANGED <<normVars, probeVars, scanVars, dailyVars, execVars>>
    /\ paused' = ResumeValue
    /\ tripped' = FALSE
    /\ tAlert' = IF tAlert = "alerted" THEN "resumed" ELSE tAlert
    /\ ev' = [NoEv EXCEPT !.kind = "resume", !.by = "operator"]
    /\ UNCHANGED <<tpc, tAttempts, tPolls, tTx, tNonce, tBalance, tReport, cpc, cVariant, rpc>>

ReportStart ==
    /\ UNCHANGED <<normVars, probeVars, scanVars, dailyVars, execVars>>
    /\ rpc = "idle"
    /\ rpc' = "probe"
    /\ ev' = NoEv
    /\ UNCHANGED <<paused, tripped, tpc, tAttempts, tPolls, tTx, tNonce, tBalance, tReport, tAlert, cpc, cVariant>>

ReportProbe ==
    /\ UNCHANGED <<normVars, probeVars, scanVars, dailyVars, execVars>>
    /\ rpc = "probe"
    /\ rpc' = "idle"
    /\ \E alert_triggered \in BOOLEAN :
         /\ paused' = IF alert_triggered THEN TRUE ELSE paused
         /\ ev' = [NoEv EXCEPT !.kind = IF alert_triggered THEN "deposit_alert"
                                                           ELSE "report",
                               !.by = "report"]
    /\ UNCHANGED <<tripped, tpc, tAttempts, tPolls, tTx, tNonce, tBalance, tReport, tAlert, cpc, cVariant>>

Init == InitNormIdle /\ InitEngine /\ InitProbeIdle /\ InitScanIdle /\ InitDailyIdle /\ InitExecIdle

Next ==
    \/ TickStart
    \/ TickProbe
    \/ TickAlert
    \/ TickBalance
    \/ TickRaise
    \/ TickFetch
    \/ TickPoll
    \/ TickFinally
    \/ \E v \in Variants : CmdStart(v)
    \/ CmdRun
    \/ Pause
    \/ Resume
    \/ ReportStart
    \/ ReportProbe

Spec == Init /\ [][Next]_vars

(***************************************************************************)
(* SpecDaily: the scheduler's ticks over several days.  The process starts *)
(* before or after 09:00; the clock moves on at any time, also during a    *)
(* tick; the operator may resume automation.                               *)
(***************************************************************************)
InitDaily ==
    /\ InitNormIdle
    /\ InitEngine
    /\ InitProbeIdle
    /\ InitScanIdle
    /\ now \in [date : {0}, after9 : BOOLEAN]
    /\ LAST_DAILY_REPORT_DATE = NoDate
    /\ dailySent = [d \in 0..MaxDay |-> 0]
    /\ ranAfter9 = {}
    /\ InitExecIdle

NextDaily ==
    \/ TickStart
    \/ TickProbe
    \/ TickAlert
    \/ TickBalance
    \/ TickRaise
    \/ TickFetch
    \/ TickPoll
    \/ TickFinally
    \/ Resume
    \/ Tock

SpecDaily == InitDaily /\ [][NextDaily]_vars

(***************************************************************************)
(* The deposit probe (helpers/deposit_monitor.py).  Probes run one after   *)
(* another; the chain grows between the requests of a probe.  Every        *)
(* request of make_request may come back None after its retries, the read  *)
(* of the checkpoint file may fail (None) and its write may fail (the file *)
(* keeps its content).                                                     *)
(***************************************************************************)
MaxHead == 3
FLAG_THRESHOLD == 100000

\* An amount of the Deposit event is an integer of wei, written here as
\* tokens * 10^18 + nano * 10^9 + wei with nano, wei < 10^9.
Giga == 10^9
Wei(tokens, nano, wei) == [tokens |-> tokens, nano |-> nano, wei |-> wei]
Amounts ==
    { Wei(FLAG_THRESHOLD - 1, 990000000, 0),       \* 99,999.99 tokens
      Wei(FLAG_THRESHOLD - 1, Giga - 1, Giga - 1), \* one wei less than 100,000
      Wei(FLAG_THRESHOLD, 0, 0) }                  \* 100,000 tokens

\* deposit_amount_wei / DECIMALS is Python's true division of two integers:
\* the double nearest to the quotient.  Between 2^16 and 2^17 doubles are
\* 2^-36 apart, so a quotient less than 2^-37 (7,275,957.6 wei) below a whole
\* number of tokens becomes that whole number; any other rounding stays
\* between the same two whole numbers.
HalfUlpWei == 7275957
deposit_amount(deposit_amount_wei) ==
    IF /\ deposit_amount_wei.nano = Giga - 1
       /\ Giga - deposit_amount_wei.wei <= HalfUlpWei
    THEN Wei(deposit_amount_wei.tokens + 1, 0, 0)
    ELSE deposit_amount_wei

\* the comparison of a token amount with a whole number of tokens
AtLeast(amount, tokens) == amount.tokens >= tokens
Deposits == [blockNumber : 1..(MaxHead + 1), amount : Amounts]

load_last_scanned_block == {checkpoint, NoBlock}
save_last_scanned_block(block_num) == {block_num, checkpoint}

StartAfter(old) == old + 1

getLogs(fromBlock, toBlock) ==
    {d \in logs : fromBlock <= d.blockNumber /\ d.blockNumber <= toBlock}

last_block_scanned_from_zero(deposits, latest_block) ==
    IF deposits # {}
    THEN MaxOf({d.blockNumber : d \in deposits})
    ELSE 0

last_block_scanned(deposits, latest_block) ==
    IF deposits # {}
    THEN MaxOf({d.blockNumber : d \in deposits})
    ELSE latest_block

Alerts(d) == AtLeast(deposit_amount(d.amount), FLAG_THRESHOLD)

alert_triggered(deposits) == \E d \in deposits : Alerts(d)

BlockTimeError == "Error: Could not fetch block time."
LatestBlockError == "Error: Could not fetch latest block."
DepositLogsError == "Error: Could not fetch deposit logs."
ErrorMessages == {BlockTimeError, LatestBlockError, DepositLogsError}
AlertMessage == "**ALERT!** ... Automated executions are now paused."
NoDepositsMessage == "No deposits over 100,000 S tokens were found between blocks ..."

ProbeFailed_advances(start, message) ==
    [alert_triggered |-> FALSE, message |-> message, start_block |-> start,
     new_last_block |-> start]

\* (False, "Error: ...", None) of check_large_deposits_with_block
ProbeFailed(start, message) ==
    [alert_triggered |-> FALSE, message |-> message, start_block |-> start,
     new_last_block |-> NoBlock]

\* run_deposit_probe: `if not alert_triggered: deposit_message = ...`
deposit_message(result) ==
    IF ~result.alert_triggered THEN NoDepositsMessage ELSE result.message

ProbeFrame == UNCHANGED <<normVars, engineVars, scanVars, dailyVars, execVars, overlapVars>>

NewBlock ==
    /\ ProbeFrame
    /\ head < MaxHead
    /\ head' = head + 1
    /\ \/ logs' = logs
       \/ \E a \in Amounts : logs' = logs \cup {[blockNumber |-> head + 1, amount |-> a]}
    /\ UNCHANGED <<checkpoint, lookback, ppc, pOld, pStart, pLatest, pRet>>

TimePasses ==
    /\ ProbeFrame
    /\ lookback < head
    /\ lookback' = lookback + 1
    /\ UNCHANGED <<checkpoint, head, logs, ppc, pOld, pStart, pLatest, pRet>>

ProbeLoad ==
    /\ ProbeFrame
    /\ ppc = "idle"
    /\ \E old \in load_last_scanned_block :
         /\ pOld' = old
         /\ IF old # NoBlock
            THEN pStart' = StartAfter(old) /\ ppc' = "latest"
            ELSE pStart' = NoBlock /\ ppc' = "blocktime"
    /\ pLatest' = NoBlock
    /\ pRet' = pRet
    /\ UNCHANGED <<checkpoint, head, logs, lookback>>

ProbeBlockTime ==
    /\ ProbeFrame
    /\ ppc = "blocktime"
    /\ \/ pStart' = lookback /\ ppc' = "latest" /\ pRet' = pRet
       \/ pStart' = pStart /\ ppc' = "save"
          /\ pRet' = ProbeFailed(pStart, BlockTimeError)
    /\ UNCHANGED <<checkpoint, head, logs, lookback, pOld, pLatest>>

ProbeLatest ==
    /\ ProbeFrame
    /\ ppc = "latest"
    /\ \/ pLatest' = head /\ ppc' = "logs" /\ pRet' = pRet
       \/ pLatest' = pLatest /\ ppc' = "save"
          /\ pRet' = ProbeFailed(pStart, LatestBlockError)
    /\ UNCHANGED <<checkpoint, head, logs, lookback, pOld, pStart>>

ProbeLogs ==
    /\ ProbeFrame
    /\ ppc = "logs"
    /\ ppc' = "save"
    /\ \/ LET deposits == getLogs(pStart, pLatest)
          IN pRet' = [alert_triggered |-> alert_triggered(deposits),
                      message |-> IF alert_triggered(deposits)
                                  THEN AlertMessage ELSE "message",
                      start_block |-> pStart,
                      new_last_block |-> last_block_scanned(deposits, pLatest)]
       \/ pRet' = ProbeFailed(pStart, DepositLogsError)
    /\ UNCHANGED <<checkpoint, head, logs, lookback, pOld, pStart, pLatest>>

ProbeSave ==
    /\ ProbeFrame
    /\ ppc = "save"
    /\ ppc' = "idle"
    /\ IF pRet.new_last_block # NoBlock
       THEN checkpoint' \in save_last_scanned_block(pRet.new_last_block)
       ELSE checkpoint' = checkpoint
    /\ pRet' = [pRet EXCEPT !.message = deposit_message(pRet)]
    /\ UNCHANGED <<head, logs, lookback, pOld, pStart, pLatest>>

InitProbe == InitNormIdle /\ InitEngine /\ InitProbeIdle /\ InitScanIdle /\ InitDailyIdle /\ InitExecIdle

NextProbe ==
    \/ NewBlock
    \/ TimePasses
    \/ ProbeLoad
    \/ ProbeBlockTime
    \/ ProbeLatest
    \/ ProbeLogs
    \/ ProbeSave

SpecProbe == InitProbe /\ [][NextProbe]_vars

(***************************************************************************)
(* SpecOverlap: the tick's probe and the report command's probe running    *)
(* at the same time.  run_deposit_probe reads the checkpoint, awaits       *)
(* check_large_deposits_with_block in a thread, then writes the            *)
(* checkpoint; the other caller may run between these three.  The check    *)
(* reads the head and then the logs up to that head, which later blocks    *)
(* do not change, so it is one step.                                       *)
(***************************************************************************)
OverlapFrame ==
    UNCHANGED <<normVars, engineVars, scanVars, dailyVars, execVars,
                head, logs, lookback, ppc, pOld, pStart, pLatest, pRet>>

OtherProber(p) == CHOOSE q \in Probers : q # p

\* old_persisted_block = load_last_scanned_block(); start_block from it
OverlapLoad(p) ==
    /\ OverlapFrame
    /\ oPc[p] = "idle"
    /\ \E old \in load_last_scanned_block :
         /\ oOld' = [oOld EXCEPT ![p] = old]
         /\ oStart' = [oStart EXCEPT ![p] = IF old # NoBlock THEN StartAfter(old)
                                                             ELSE NoBlock]
    /\ oPc' = [oPc EXCEPT ![p] = "check"]
    /\ UNCHANGED <<checkpoint, oRet, oFirst>>

\* check_large_deposits_with_block(start_block), in its thread
OverlapCheck(p) ==
    /\ OverlapFrame
    /\ oPc[p] = "check"
    /\ oPc' = [oPc EXCEPT ![p] = "save"]
    /\ \/ LET start_block == IF oStart[p] = NoBlock THEN lookback ELSE oStart[p]
              deposits == getLogs(start_block, head)
          IN  /\ oStart' = [oStart EXCEPT ![p] = start_block]
              /\ oRet' = [oRet EXCEPT ![p] =
                            [alert_triggered |-> alert_triggered(deposits),
                             message |-> IF alert_triggered(deposits)
                                         THEN AlertMessage ELSE "message",
                             start_block |-> start_block,
                             new_last_block |-> last_block_scanned(deposits, head)]]
       \/ /\ oStart' = oStart
          /\ \E message \in ErrorMessages :
               /\ message = BlockTimeError => oStart[p] = NoBlock
               /\ oRet' = [oRet EXCEPT ![p] = ProbeFailed(oStart[p], message)]
    /\ UNCHANGED <<checkpoint, oOld, oFirst>>

\* the other caller is between its read and its write, having read the
\* same checkpoint
Overlapping(p) ==
    /\ oPc[OtherProber(p)] \in {"check", "save"}
    /\ oOld[OtherProber(p)] = oOld[p]

\* `if new_last_block is not None: save_last_scanned_block(new_last_block)`
OverlapSave(p) ==
    /\ OverlapFrame
    /\ oPc[p] = "save"
    /\ oPc' = [oPc EXCEPT ![p] = "idle"]
    /\ IF oRet[p].new_last_block # NoBlock
       THEN checkpoint' \in save_last_scanned_block(oRet[p].new_last_block)
       ELSE checkpoint' = checkpoint
    /\ oFirst' = IF oFirst = NoBlock /\ Overlapping(p) THEN checkpoint' ELSE NoBlock
    \* the call has returned: its locals are gone
    /\ oOld' = [oOld EXCEPT ![p] = NoBlock]
    /\ oStart' = [oStart EXCEPT ![p] = NoBlock]
    /\ oRet' = [oRet EXCEPT ![p] = NoProbeRet]

InitOverlap ==
    InitNormIdle /\ InitEngine /\ InitProbeIdle /\ InitScanIdle /\ InitDailyIdle
    /\ InitExecIdle

NextOverlap ==
    \/ NewBlock
    \/ \E p \in Probers : OverlapLoad(p)
    \/ \E p \in Probers : OverlapCheck(p)
    \/ \E p \in Probers : OverlapSave(p)

SpecOverlap == InitOverlap /\ [][NextOverlap]_vars

(***************************************************************************)
(* The chunked scans (check_large_deposits_custom for the history command, *)
(* fetch_all_deposits_custom for the CSV export).  Both walk               *)
(* [start_block, latest_block] in chunks of BLOCK_CHUNK_SIZE; a step is    *)
(* one call of make_request for the current chunk, which may come back     *)
(* None.  The two differ in how they end when the chunk size has reached   *)
(* MIN_BLOCK_CHUNK: the history scan returns an error, the export returns  *)
(* what it has.                                                            *)
(***************************************************************************)
MIN_BLOCK_CHUNK_lower == 3125 - 125
MIN_BLOCK_CHUNK == 3125
RETRY_LIMIT == 2
MaxSpan == 60000
ScanStarts == {0, 1000}
ScanSpans == {0, 1, BLOCK_CHUNK_SIZE - 1, BLOCK_CHUNK_SIZE, BLOCK_CHUNK_SIZE + 1,
              2 * BLOCK_CHUNK_SIZE + 1, MaxSpan}
ScanKinds == {"history", "csv"}

MinI(a, b) == IF a <= b THEN a ELSE b
MaxI(a, b) == IF a >= b THEN a ELSE b

\* current_end_block = min(current_start_block + BLOCK_CHUNK_SIZE, latest_block)
current_end_block == MinI(sCur + sChunk, sLatest)

NextChunkStart_skipping(end_block) == end_block + 2
\* a loop that goes on from the end block itself
NextChunkStart_from_end(end_block) == end_block
\* current_start_block = current_end_block + 1
NextChunkStart(end_block) == end_block + 1

\* BLOCK_CHUNK_SIZE = max(BLOCK_CHUNK_SIZE // 2, MIN_BLOCK_CHUNK)
ReducedChunk(size) == MaxI(size \div 2, MIN_BLOCK_CHUNK)

ScanFrame == UNCHANGED <<normVars, engineVars, probeVars, dailyVars, execVars>>

\* what the logs of one chunk hold: no deposit, deposits below
\* FLAG_THRESHOLD only, or a deposit of FLAG_THRESHOLD or more
ChunkLogs == {"none", "small", "large"}

HistoryOut_partial(collected, failed) ==
    LET large == SelectSeq(collected, LAMBDA c : c[3] = "large")
    IN  [alert |-> large # <<>>, deposits |-> large]

\* check_large_deposits_custom: (alert_triggered, message), the message
\* listing the large deposits; (False, "Error: ...") when the scan failed
HistoryOut(collected, failed) ==
    LET large == SelectSeq(collected, LAMBDA c : c[3] = "large")
    IN  IF failed THEN NoOut
        ELSE [alert |-> large # <<>>, deposits |-> large]

\* fetch_all_deposits_custom: deposit_list, made of all the logs collected
CsvOut(collected) ==
    [alert |-> FALSE, deposits |-> SelectSeq(collected, LAMBDA c : c[3] # "none")]

ScanOut(kind, collected, failed) ==
    IF kind = "history" THEN HistoryOut(collected, failed) ELSE CsvOut(collected)

\* the outer loop goes on with the chunk after end_block, or is over
ScanAdvance(end_block) ==
    /\ sCur' = NextChunkStart(end_block)
    /\ sRetries' = 0
    /\ IF NextChunkStart(end_block) <= sLatest
       THEN spc' = "scan" /\ sResult' = sResult /\ sOut' = sOut
       ELSE /\ spc' = "done"
            /\ sResult' = "ok"
            /\ sOut' = ScanOut(sKind, sCollected', FALSE)

\* the block-time and head lookups, then the first pass of the outer loop
ScanStart ==
    /\ ScanFrame
    /\ spc = "idle"
    /\ \E kind \in ScanKinds :
         /\ sKind' = kind
         /\ \/ /\ spc' = "done"
               /\ sResult' = "unavailable"
               /\ sOut' = NoOut
               /\ UNCHANGED <<sStart, sLatest, sCur>>
            \/ \E start_block \in ScanStarts, span \in ScanSpans :
                  /\ sStart' = start_block
                  /\ sLatest' = start_block + span
                  /\ sCur' = start_block
                  /\ spc' = "scan"
                  /\ sResult' = "none"
                  /\ sOut' = NoOut
    /\ sChunk' = BLOCK_CHUNK_SIZE
    /\ sRetries' = 0
    /\ sCollected' = <<>>
    /\ sDropped' = {}

\* one request for the logs of the current chunk
ScanQuery ==
    /\ ScanFrame
    /\ spc = "scan"
    /\ UNCHANGED <<sKind, sStart, sLatest>>
    /\ \/ /\ \E found \in ChunkLogs :
               sCollected' = Append(sCollected, <<sCur, current_end_block, found>>)
          /\ ScanAdvance(current_end_block)
          /\ UNCHANGED <<sChunk, sDropped>>
       \/ IF sRetries + 1 < RETRY_LIMIT
          THEN /\ sRetries' = sRetries + 1
               /\ UNCHANGED <<spc, sCur, sChunk, sCollected, sDropped, sResult, sOut>>
          ELSE LET size == IF sChunk > MIN_BLOCK_CHUNK
                           THEN ReducedChunk(sChunk) ELSE sChunk
               IN  /\ sChunk' = size
                   /\ sDropped' = sDropped \cup {<<sCur, current_end_block>>}
                   /\ sCollected' = sCollected
                   /\ IF size = MIN_BLOCK_CHUNK
                      THEN /\ spc' = "done"
                           /\ sResult' = IF sKind = "history" THEN "error" ELSE "partial"
                           /\ sOut' = ScanOut(sKind, sCollected, TRUE)
                           /\ sRetries' = sRetries + 1
                           /\ sCur' = sCur
                      ELSE ScanAdvance(current_end_block)

\* what the history and the export command do with the pause flag once
\* the scan has returned: nothing, unlike the report command
AfterScan_pausing(out) == out.alert \/ paused
AfterScan(out) == paused

\* the scan returned and the command sent its result; the next command
\* starts a new one
ScanReturn ==
    /\ UNCHANGED <<normVars, probeVars, dailyVars, execVars>>
    /\ UNCHANGED <<tripped, tpc, tAttempts, tPolls, tTx, tNonce, tBalance, tReport,
                   tAlert, cpc, cVariant, rpc, ev>>
    /\ paused' = AfterScan(sOut)
    /\ sOut' = NoOut
    /\ spc = "done"
    /\ spc' = "idle"
    /\ sKind' = "none"
    /\ sStart' = NoBlock
    /\ sLatest' = NoBlock
    /\ sCur' = NoBlock
    /\ sChunk' = BLOCK_CHUNK_SIZE
    /\ sRetries' = 0
    /\ sCollected' = <<>>
    /\ sDropped' = {}
    /\ sResult' = "none"

\* a checkpoint may have been stored by earlier probes
InitScan ==
    /\ InitNormIdle
    /\ InitEngine
    /\ InitScanIdle
    /\ InitDailyIdle
    /\ InitExecIdle
    /\ InitOverlapIdle
    /\ lookback = 0
    /\ checkpoint \in {NoBlock, 500}
    /\ head = 0
    /\ logs = {}
    /\ ppc = "idle"
    /\ pOld = NoBlock
    /\ pStart = NoBlock
    /\ pLatest = NoBlock
    /\ pRet = NoProbeRet

NextScan ==
    \/ ScanStart
    \/ ScanQuery
    \/ ScanReturn
    \/ Pause
    \/ Resume

SpecScan == InitScan /\ [][NextScan]_vars

\* make_request gives up after its own bounded retries, so a scan that is
\* under way always gets the answer to the request it is waiting for
SpecScanLive == InitScan /\ [][NextScan]_vars /\ WF_vars(ScanQuery)

(***************************************************************************)
(* The two request helpers with retries: make_request                      *)
(* (helpers/deposit_monitor.py) and fetch_recent_transactions              *)
(* (helpers/fetch_transactions.py).  The argument is what the server       *)
(* answers to the successive attempts:                                     *)
(*   "ok"             200, a JSON object with the expected key             *)
(*   "http_error"     a status raise_for_status rejects (HTTPError)         *)
(*   "transport"      ConnectionError                                      *)
(*   "timeout"        requests.exceptions.Timeout                          *)
(*   "not_json"       200, a body response.json() cannot parse (ValueError)*)
(*   "json_no_key"    200, a JSON object without "result" / "results"      *)
(*   "json_list"      200, a JSON array                                    *)
(*   "json_null"      200, the JSON value null                             *)
(* The result is what the caller gets: a returned value or an exception.   *)
(***************************************************************************)
MAX_RETRIES_deposit_monitor == 5
MAX_RETRIES_fetch_transactions == 4

Caught == {"http_error", "transport", "timeout", "not_json"}
Responses == Caught \cup {"ok", "json_no_key", "json_list", "json_null"}

Returned(value, attempt) == [outcome |-> "returned", value |-> value, attempts |-> attempt]
Raised(exception, attempt) == [outcome |-> "raised", value |-> exception, attempts |-> attempt]

\* `if "result" in data: return data`, for data a dict or a list; the
\* membership test on None raises TypeError, which no except clause names
RECURSIVE make_request(_, _)
make_request(responses, attempt) ==
    IF attempt > MAX_RETRIES_deposit_monitor
    THEN Returned("None", MAX_RETRIES_deposit_monitor)
    ELSE LET r == responses[attempt]
         IN  IF r = "ok" THEN Returned("data", attempt)
             ELSE IF r \in Caught \cup {"json_no_key", "json_list"}
             THEN make_request(responses, attempt + 1)
             ELSE Raised("TypeError", attempt)

\* `results = response.json().get("results", [])`: a dict without the key
\* gives [] at once, a list or None has no .get (AttributeError, not caught)
RECURSIVE fetch_recent_transactions(_, _)
fetch_recent_transactions(responses, attempt) ==
    IF attempt > MAX_RETRIES_fetch_transactions
    THEN Returned("[]", MAX_RETRIES_fetch_transactions)
    ELSE LET r == responses[attempt]
         IN  IF r = "ok" THEN Returned("results", attempt)
             ELSE IF r = "json_no_key" THEN Returned("[]", attempt)
             ELSE IF r \in Caught
             THEN fetch_recent_transactions(responses, attempt + 1)
             ELSE Raised("AttributeError", attempt)

InitReq ==
    /\ arg \in [1..MAX_RETRIES_deposit_monitor -> Responses]
    /\ ret = NoRet
    /\ InitEngine
    /\ InitProbeIdle
    /\ InitScanIdle
    /\ InitDailyIdle
    /\ InitExecIdle

CallMakeRequest ==
    /\ ~ret.done
    /\ ret' = [done |-> TRUE,
               val |-> [f |-> "make_request", limit |-> MAX_RETRIES_deposit_monitor,
                        unavailable |-> "None", result |-> make_request(arg, 1)]]
    /\ UNCHANGED <<arg, engineVars, probeVars, scanVars, dailyVars, execVars>>

CallFetchRecentTransactions ==
    /\ ~ret.done
    /\ ret' = [done |-> TRUE,
               val |-> [f |-> "fetch_recent_transactions",
                        limit |-> MAX_RETRIES_fetch_transactions,
                        unavailable |-> "[]",
                        result |-> fetch_recent_transactions(arg, 1)]]
    /\ UNCHANGED <<arg, engineVars, probeVars, scanVars, dailyVars, execVars>>

NextReq ==
    \/ CallMakeRequest
    \/ CallFetchRecentTransactions

SpecReq == InitReq /\ [][NextReq]_vars

(***************************************************************************)
(* SpecDecode: decode_hex_data applied once to calldata of every selector  *)
(* and length, well-formed or not.                                         *)
(***************************************************************************)
MaxWords == 3
\* delegate, approve (an address and a uint256), and an unknown selector
Selectors == {DelegateSelector, "095ea7b3", "deadbeef"}
Words == {7, PayAmount}
CalldataInputs ==
    {Calldata(sel, w, hex) :
        sel \in Selectors, w \in SeqsUpTo(Words, MaxWords), hex \in BOOLEAN}
    \cup {NoData}

InitDecode ==
    /\ arg \in CalldataInputs
    /\ ret = NoRet
    /\ InitEngine
    /\ InitProbeIdle
    /\ InitScanIdle
    /\ InitDailyIdle
    /\ InitExecIdle

DecodeCall ==
    /\ ~ret.done
    /\ ret' = [done |-> TRUE, val |-> decode_hex_data(arg)]
    /\ UNCHANGED <<arg, engineVars, probeVars, scanVars, dailyVars, execVars>>

NextDecode == DecodeCall

SpecDecode == InitDecode /\ [][NextDecode]_vars

(***************************************************************************)
(* SpecExec: execute_transaction (helpers/execute_transaction.py) inside   *)
(* the tick's loop `while attempts < 3`.  A step is one pass of            *)
(* execute_transaction's own loop `while attempt < max_retries`: the       *)
(* arguments are built, the call is signed and sent, the receipt awaited.  *)
(* A hex string is the sequence of its characters.                         *)
(***************************************************************************)
max_retries == 5
\* hex digits of calldata after the 0x prefix, at most
MaxNibbles == 4
Nibbles == {"0", "a"}

HexDatas ==
    {<<"0", "x">> \o n :
        n \in UNION {[1..k -> Nibbles] : k \in {j \in 0..MaxNibbles : j % 2 = 0}}}

\* JSON null
NoneData == <<"N", "o", "n", "e">>

\* str.lstrip("0x"): drops every leading character that is "0" or "x"
RECURSIVE lstrip_0x(_)
lstrip_0x(str) ==
    IF str # <<>> /\ Head(str) \in {"0", "x"}
    THEN lstrip_0x(Tail(str))
    ELSE str

\* bytes.fromhex: ValueError unless the digits come in pairs; the bytes
\* are written as their hex digits
fromhex(str) ==
    IF Len(str) % 2 = 0
    THEN [raised |-> FALSE, bytes |-> str]
    ELSE [raised |-> TRUE, bytes |-> <<>>]

\* int() of the decimal strings the Safe API uses for value and gasPrice
int(str) == IF str = "5" THEN 5 ELSE 0

ZeroAddress == "0x0000000000000000000000000000000000000000"

ExecRecords ==
    [to : {"0xStaking"}, value : {"0", "5"}, data : HexDatas \cup {NoneData},
     operation : {0, 1}, safeTxGas : {0}, baseGas : {0}, gasPrice : {"0"},
     gasToken : {ZeroAddress}, refundReceiver : {ZeroAddress},
     confirmations : {0, 2}]

\* lines 144-156: the arguments of execTransaction, or the exception
ExecArgs(transaction) ==
    LET data == IF transaction.data = NoneData
                THEN [raised |-> FALSE, bytes |-> <<>>]
                ELSE fromhex(lstrip_0x(transaction.data))
    IN  [raised |-> data.raised, sent |-> TRUE,
         to |-> transaction.to, value |-> int(transaction.value),
         data |-> data.bytes, operation |-> transaction.operation,
         safeTxGas |-> transaction.safeTxGas, baseGas |-> transaction.baseGas,
         gasPrice |-> int(transaction.gasPrice), gasToken |-> transaction.gasToken,
         refundReceiver |-> transaction.refundReceiver]

ExecFrame == UNCHANGED <<normVars, engineVars, probeVars, scanVars, dailyVars>>

\* the gate passed and the record was fetched again: attempts = 0
ExecBegin ==
    /\ ExecFrame
    /\ xpc = "idle"
    /\ xpc' = "try"
    /\ xTx' \in ExecRecords
    /\ xAttempts' = 0
    /\ xTry' = 0
    /\ xSends' = 0
    /\ xArgs' = NoArgs

\* execute_transaction returned res to the tick's loop
ExecReturned(res) ==
    IF res = "ok"
    THEN xpc' = "done" /\ xAttempts' = xAttempts /\ xTry' = 0
    ELSE /\ xAttempts' = xAttempts + 1
         /\ xTry' = 0
         /\ xpc' = IF xAttempts + 1 < MAX_ATTEMPTS THEN "cooldown" ELSE "done"

\* the except clause: attempt += 1, return None at max_retries
ExecExcept ==
    IF xTry + 1 = max_retries
    THEN ExecReturned("not_sent")
    ELSE xTry' = xTry + 1 /\ UNCHANGED <<xpc, xAttempts>>

\* one pass of `while attempt < max_retries`
ExecTry ==
    /\ ExecFrame
    /\ xpc = "try"
    /\ xTx' = xTx
    /\ LET args == ExecArgs(xTx)
       IN  IF args.raised
           THEN ExecExcept /\ UNCHANGED <<xSends, xArgs>>
           ELSE IF xTx.confirmations = 0
           THEN ExecReturned("not_sent") /\ UNCHANGED <<xSends, xArgs>>
           ELSE \/ \* gas_price, build_transaction or get_transaction_count raised
                   ExecExcept /\ UNCHANGED <<xSends, xArgs>>
                \/ \* send_raw_transaction raised
                   /\ ExecExcept
                   /\ xSends' = xSends + 1
                   /\ xArgs' = args
                \/ \* sent; the receipt says ok or reverted, or does not come
                   /\ \E res \in {"ok", "reverted", "timeout"} : ExecReturned(res)
                   /\ xSends' = xSends + 1
                   /\ xArgs' = args

\* the 60 seconds between two attempts are over, or the pause was seen
ExecCooldown ==
    /\ ExecFrame
    /\ xpc = "cooldown"
    /\ xpc' \in {"try", "done"}
    /\ UNCHANGED <<xTx, xAttempts, xTry, xSends, xArgs>>

\* the tick returned
ExecEnd ==
    /\ ExecFrame
    /\ xpc = "done"
    /\ xpc' = "idle"
    /\ xTx' = NoArgs
    /\ xAttempts' = 0
    /\ xTry' = 0
    /\ xSends' = 0
    /\ xArgs' = NoArgs

InitExec ==
    /\ InitNormIdle
    /\ InitEngine
    /\ InitProbeIdle
    /\ InitScanIdle
    /\ InitDailyIdle
    /\ InitExecIdle

NextExec ==
    \/ ExecBegin
    \/ ExecTry
    \/ ExecCooldown
    \/ ExecEnd

SpecExec == InitExec /\ [][NextExec]_vars

(***************************************************************************)
(* SpecSig: collect_and_sort_signatures (helpers/execute_transaction.py)   *)
(* applied once to the confirmations of a record, in every order.  An      *)
(* owner address and a signature are the sequences of their characters;    *)
(* the Safe transaction service keeps one confirmation per owner, so the   *)
(* owners of a record differ as addresses, that is, without regard to the  *)
(* case of their checksum letters.                                         *)
(***************************************************************************)
\* confirmations of a record, at most
MaxConfs == 3
\* the hex digits of an owner address after 0x, checksum letters in
\* upper case; the first and the last are the same address
Owners == {<<"A", "A">>, <<"a", "B">>, <<"B", "a">>, <<"a", "a">>}
\* "0x" and the bytes of a signature, or the empty string
Signatures ==
    {<<>>, <<"0", "x", "1", "1">>, <<"0", "x", "2", "2">>, <<"0", "x", "3", "3", "4", "4">>}

\* the code points Python compares strings by
ord(c) ==
    CASE c = "0" -> 48 [] c = "1" -> 49 [] c = "2" -> 50 [] c = "3" -> 51
      [] c = "4" -> 52 [] c = "A" -> 65 [] c = "B" -> 66 [] c = "a" -> 97
      [] c = "b" -> 98 [] c = "x" -> 120

\* str.lower()
lower(str) ==
    [i \in DOMAIN str |->
        IF str[i] = "A" THEN "a" ELSE IF str[i] = "B" THEN "b" ELSE str[i]]

\* a < b on strings
RECURSIVE StrLess(_, _)
StrLess(a, b) ==
    IF b = <<>> THEN FALSE
    ELSE IF a = <<>> THEN TRUE
    ELSE IF ord(Head(a)) # ord(Head(b)) THEN ord(Head(a)) < ord(Head(b))
    ELSE StrLess(Tail(a), Tail(b))

Confirmations ==
    {c \in SeqsUpTo([owner : Owners, signature : Signatures], MaxConfs) :
        \A i, j \in DOMAIN c : i # j => lower(c[i].owner) # lower(c[j].owner)}

SortKey_as_given(x) == x.owner
\* key=lambda x: x["owner"].lower()
SortKey(x) == lower(x.owner)

\* sorted(): stable, an item goes behind the items whose key is not greater
RECURSIVE sorted(_)
sorted(confirmations) ==
    IF confirmations = <<>>
    THEN <<>>
    ELSE LET n == Len(confirmations)
             x == confirmations[n]
             before == sorted(SubSeq(confirmations, 1, n - 1))
             p == Cardinality({i \in DOMAIN before :
                                  ~StrLess(SortKey(x), SortKey(before[i]))})
         IN  SubSeq(before, 1, p) \o <<x>> \o SubSeq(before, p + 1, n - 1)

\* the loop over the sorted confirmations: an empty signature is skipped,
\* signatures += bytes.fromhex(signature[2:])
RECURSIVE JoinSignatures(_)
JoinSignatures(confirmations) ==
    IF confirmations = <<>>
    THEN <<>>
    ELSE LET signature == Head(confirmations).signature
         IN  (IF signature = <<>>
              THEN <<>>
              ELSE fromhex(SubSeq(signature, 3, Len(signature))).bytes)
             \o JoinSignatures(Tail(confirmations))

NoSignatures == [ok |-> FALSE, signatures |-> <<>>]

\* None without confirmations and without any signature
collect_and_sort_signatures(confirmations) ==
    IF confirmations = <<>>
    THEN NoSignatures
    ELSE LET signatures == JoinSignatures(sorted(confirmations))
         IN  IF signatures = <<>>
             THEN NoSignatures
             ELSE [ok |-> TRUE, signatures |-> signatures]

InitSig ==
    /\ arg \in Confirmations
    /\ ret = NoRet
    /\ InitEngine
    /\ InitProbeIdle
    /\ InitScanIdle
    /\ InitDailyIdle
    /\ InitExecIdle

CollectSignatures ==
    /\ ~ret.done
    /\ ret' = [done |-> TRUE, val |-> collect_and_sort_signatures(arg)]
    /\ UNCHANGED <<arg, engineVars, probeVars, scanVars, dailyVars, execVars>>

NextSig == CollectSignatures

SpecSig == InitSig /\ [][NextSig]_vars

(***************************************************************************)
(* Claims on the normalizer (SpecNorm).                                    *)
(***************************************************************************)

\* C1: whenever an input record with nonce n has isExecuted = TRUE, the
\* output of filter_and_sort_pending_transactions holds no record with
\* nonce n, in every input order.
C1_ExecutedNonceExcluded ==
    ret.done =>
        \A i \in DOMAIN arg :
            arg[i].isExecuted =>
                \A j \in DOMAIN ret.val : ret.val[j].nonce # arg[i].nonce

\* C12: for every input list the output of
\* filter_and_sort_pending_transactions is strictly ascending by nonce.
C12_OutputStrictlyAscending ==
    ret.done =>
        \A i, j \in DOMAIN ret.val :
            i < j => ret.val[i].nonce < ret.val[j].nonce

C12_Witness ==
    /\ ret.done
    /\ Len(arg) = 3
    /\ arg[1].nonce = 2
    /\ arg[2].nonce = 1
    /\ arg[3].nonce = 2
    /\ Len(ret.val) = 2

\* C13: of two non-executed records with the same nonce and different
\* submissionDate, given in either order, only the later-dated one is
\* returned; more generally, when no input record is executed, the record
\* returned for a nonce is dated no earlier than any input record of it.
C13_LaterSubmissionSurvives ==
    ret.done =>
        /\ (/\ Len(arg) = 2
            /\ ~arg[1].isExecuted /\ ~arg[2].isExecuted
            /\ arg[1].nonce = arg[2].nonce
            /\ arg[1].submissionDate # arg[2].submissionDate)
           => ret.val = <<IF arg[1].submissionDate > arg[2].submissionDate
                          THEN arg[1] ELSE arg[2]>>
        /\ (\A i \in DOMAIN arg : ~arg[i].isExecuted)
           => \A i \in DOMAIN arg : \A j \in DOMAIN ret.val :
                  ret.val[j].nonce = arg[i].nonce
                      => ret.val[j].submissionDate >= arg[i].submissionDate

C13_Witness ==
    /\ ret.done
    /\ Len(arg) = 2
    /\ ~arg[1].isExecuted /\ ~arg[2].isExecuted
    /\ arg[1].nonce = arg[2].nonce
    /\ arg[1].submissionDate > arg[2].submissionDate
    /\ ret.val = <<arg[1]>>

(***************************************************************************)
(* Claims on the execution engine (Spec).                                  *)
(***************************************************************************)
CalledExecute == ev.kind = "exec"
GateRan == ev.attempt = 1 \/ ev.kind = "reject"

\* C2: no record is passed to execute_transaction whose number of
\* confirmations is smaller than its confirmationsRequired.
C2_SubmittedHasEnoughSignatures ==
    CalledExecute => ev.tx.confirmations >= ev.tx.confirmationsRequired

\* C3: in a tick, the third attempt that ends without a successful receipt
\* sets paused, broadcasts the reverted-three-times alert and ends the
\* tick's loop; the tick never makes a fourth attempt.
C3_ThreeFailuresTripBreaker ==
    (CalledExecute /\ ev.by = "tick") =>
        /\ ev.attempt <= 3
        /\ ev.attempt < 3 /\ ev.res # "ok" => tpc = "cooldown" /\ ev.msg = "retrying"
        /\ ev.attempt = 3 /\ ev.res # "ok" =>
               paused /\ ev.msg = "reverted_alert" /\ tpc = "finally"

C3_Witness ==
    /\ CalledExecute
    /\ ev.by = "tick"
    /\ ev.attempt = 3
    /\ ev.res = "reverted"
    /\ paused
    /\ ev.msg = "reverted_alert"

\* C4: paused is true at startup, and a step takes paused from true to
\* false only when it is the operator's resume command.
C4_OnlyResumeUnpauses ==
    /\ paused = TRUE
    /\ [][(paused /\ ~paused') => ev'.kind = "resume"]_vars

C4_Witness == ~paused /\ ev.kind = "resume"

\* C5 as stated: after the circuit breaker has fired, and until a resume,
\* neither a tick nor a standard execute command calls execute_transaction.
C5_NoSubmissionAfterBreaker ==
    [][tripped => ~(ev'.kind = "exec" /\ ev'.by \in {"tick", "execute"})]_vars

\* C5 amended: after the circuit breaker has fired, and until a resume, no
\* tick calls execute_transaction and no standard execute command passes
\* its pause check.
C5_NoTickNorNewExecuteAfterBreaker ==
    [][tripped =>
         /\ ~(ev'.kind = "exec" /\ ev'.by = "tick")
         /\ ~(ev'.kind = "started" /\ ev'.by = "execute")]_vars

C5_Witness ==
    /\ tripped
    /\ ev.kind = "reject"
    /\ ev.by = "execute"
    /\ ev.msg = "paused"

\* C6: a cooldown poll, or the loop head after the last sleep, that finds
\* paused true ends the tick's loop without another attempt.
TickStepped == tpc' # tpc \/ tPolls' # tPolls \/ tAttempts' # tAttempts

C6_PauseEndsCooldown ==
    [][(tpc = "cooldown" /\ paused /\ TickStepped) =>
         (tpc' = "finally" /\ ev'.kind = "pause_detected")]_vars

C6_Witness ==
    /\ ev.kind = "pause_detected"
    /\ tpc = "finally"
    /\ paused

\* C8 as stated: while paused is true neither the standard execute command
\* nor the tick calls execute_transaction.
C8_NoStandardSubmissionWhilePaused ==
    (CalledExecute /\ ev.by \in {"tick", "execute"}) => ~ev.pausedAtCall

\* C8 amended: the tick never calls execute_transaction while paused is
\* true, the standard execute command is refused when paused is true as it
\* starts, and shikai, bankai and shukai9000 are never refused for pause.
C8_PauseCheckedByStandardOnly ==
    /\ (CalledExecute /\ ev.by = "tick") => ~ev.pausedAtCall
    /\ (ev.kind = "started" /\ ev.by = "execute") => ~ev.pausedAtCall
    /\ (ev.kind = "reject" /\ ev.msg = "paused") =>
            (ev.by \in {"tick", "execute"} /\ ev.pausedAtCall)
    /\ (ev.kind = "started" /\ ev.by # "execute") => cpc = "run"

C8_Witness ==
    /\ CalledExecute
    /\ ev.by = "bankai"
    /\ ev.pausedAtCall

\* C9: for a lowest-nonce record with enough signatures whose calldata is
\* empty or does not decode, shukai9000 goes on to the re-fetch and the
\* call of execute_transaction, while execute, shikai and bankai answer
\* with the decode failure and call nothing.
C9_OnlyShukaiToleratesNoPayload ==
    /\ (CalledExecute /\ GateRan /\ ~ev.decoded) => ev.by = "shukai9000"
    /\ (GateRan /\ ev.enough /\ ~ev.decoded /\ ev.by \in {"execute", "shikai", "bankai"})
            => (ev.kind = "reject" /\ ev.msg = "decode_failed")
    /\ (GateRan /\ ev.enough /\ ~ev.decoded /\ ev.by = "shukai9000")
            => (CalledExecute \/ ev.msg = "not_found")

C9_Witness ==
    /\ CalledExecute
    /\ ev.by = "shukai9000"
    /\ ev.enough
    /\ ~ev.decoded

\* C10: execute, shikai and the tick call execute_transaction only when
\* the staking balance is not lower than the decoded amount.
C10_BalanceCheckedByStandardAndShikai ==
    (CalledExecute /\ GateRan /\ ev.by \in {"tick", "execute", "shikai"})
        => ~ev.short

\* C11: every call of execute_transaction by a tick or a command is for the
\* nonce of the first record of the normalized pending list of that same
\* invocation, retries of the tick included; an invocation whose gate
\* rejects that record ends without calling execute_transaction.
C11_OnlyLowestNonceSubmitted ==
    /\ CalledExecute => (ev.lowest # 0 /\ ev.tx.nonce = ev.lowest)
    /\ (ev.kind = "reject") => ev.tx = TxView(NoTx)
    /\ (ev.kind = "reject" /\ ev.by = "tick") => (tpc = "finally" /\ tTx = NoTx)
    /\ (ev.kind = "reject" /\ ev.by \in Variants) => cpc = "idle"
    /\ tpc = "cooldown" => (tNonce # 0 /\ tTx.nonce = tNonce)

C11_Witness ==
    /\ CalledExecute
    /\ ev.by = "tick"
    /\ ev.attempt = 2
    /\ ev.tx.nonce = 2
    /\ ev.lowest = 2

(***************************************************************************)
(* Claims on the deposit probe (SpecProbe).                                *)
(***************************************************************************)

\* C7: with probes run one after another and a chain head that never goes
\* back, no step lowers the stored checkpoint.
C7_CheckpointNeverDecreases ==
    [][checkpoint' >= checkpoint]_vars

\* the check of the probe in progress came back with one of its errors
CheckFailed == ppc = "save" /\ pRet.message \in ErrorMessages
\* the check of the probe in progress came back with logs classified
CheckSucceeded == ppc = "save" /\ pRet.message \notin ErrorMessages
\* the last probe that returned had failed
ProbeReturnedFailure ==
    ppc # "save" /\ pRet.message # "none" /\ pRet.new_last_block = NoBlock
\* run_deposit_probe resolves the start block of a new probe in this step
StartResolved == ppc \in {"idle", "blocktime"} /\ ppc' = "latest"

\* C14 as stated: a probe whose block-time lookup, head lookup or log query
\* is unavailable returns alert_triggered = FALSE and no new last block,
\* leaves the stored checkpoint as it is, and the next probe starts from
\* the block the failed probe started from.
C14_FailedProbeRetriesSameBlock ==
    /\ [](CheckFailed => (~pRet.alert_triggered /\ pRet.new_last_block = NoBlock))
    /\ [][CheckFailed => checkpoint' = checkpoint]_vars
    /\ [][(ProbeReturnedFailure /\ pRet.start_block # NoBlock /\ StartResolved)
            => pStart' = pRet.start_block]_vars

\* C14 amended: the failed probe returns alert_triggered = FALSE and no new
\* last block and leaves the stored checkpoint as it is; when the failed
\* probe had read a checkpoint and the next probe reads one too, the next
\* probe starts from the same block.
C14_FailedProbeKeepsCheckpoint ==
    /\ [](CheckFailed => (~pRet.alert_triggered /\ pRet.new_last_block = NoBlock))
    /\ [][CheckFailed => checkpoint' = checkpoint]_vars
    /\ [][(ProbeReturnedFailure /\ pOld # NoBlock /\ ppc = "idle" /\ ppc' = "latest")
            => pStart' = pRet.start_block]_vars

C14_Witness ==
    /\ ppc = "latest"
    /\ ProbeReturnedFailure
    /\ checkpoint # NoBlock
    /\ pRet.start_block = checkpoint + 1
    /\ pStart = pRet.start_block

\* C15: the message a failed probe returns is one of the error messages
\* of check_large_deposits_with_block.
C15_FailedProbeReturnsErrorMessage ==
    (ppc = "idle" /\ ProbeReturnedFailure) => pRet.message \in ErrorMessages

\* the probe in progress writes and returns in this step
ProbeReturns == ppc = "save" /\ ppc' = "idle"
QuietRange == getLogs(pStart, pLatest) = {}

C20_AlertExactlyAtThreshold ==
    CheckSucceeded =>
        (pRet.alert_triggered <=>
            \E d \in getLogs(pStart, pLatest) : AtLeast(d.amount, FLAG_THRESHOLD))

(***************************************************************************)
(* Claims on the chunked scans (SpecScan).                                 *)
(***************************************************************************)
\* the scan went through its whole range and left no chunk behind
ScanCompleted == spc = "done" /\ sResult = "ok" /\ sDropped = {}

\* the collected ranges, in order, tile [from, to]
Tiles(ranges, from, to) ==
    /\ ranges # <<>>
    /\ ranges[1][1] = from
    /\ ranges[Len(ranges)][2] = to
    /\ \A i \in DOMAIN ranges : ranges[i][1] <= ranges[i][2]
    /\ \A i \in 1..(Len(ranges) - 1) : ranges[i + 1][1] = ranges[i][2] + 1

\* C17: in both chunked scans, when the query of every chunk succeeded
\* within its retries, the collected chunks tile [start_block,
\* latest_block]: every block lies in exactly one of them.
C17_CollectedChunksTileRange ==
    ScanCompleted => Tiles(sCollected, sStart, sLatest)

C17_Witness ==
    /\ ScanCompleted
    /\ Len(sCollected) = 3
    /\ sLatest - sStart > 2 * BLOCK_CHUNK_SIZE + 1

\* C18: in both chunked scans the chunk size stays between 3,125 and
\* 25,000 and a step of a scan changes it only to its half.
C18_ChunkSizeOnlyHalves ==
    /\ [](3125 <= sChunk /\ sChunk <= 25000)
    /\ [][(spc = "scan" /\ sChunk' # sChunk)
            => (sChunk' = sChunk \div 2 \/ (sChunk' = 3125 /\ sChunk \div 2 < 3125))]_vars

C18_Witness ==
    /\ spc = "done"
    /\ sChunk = 3125
    /\ sKind = "csv"
    /\ sResult = "partial"

\* a step of the scan, or of the command that runs it
ScanStepped == scanVars' # scanVars

\* C24: no step of the history scan or of the CSV export changes paused or
\* the stored checkpoint, whatever the scan finds and however it fails.
C24_ScansLeavePausedAndCheckpoint ==
    [][ScanStepped => paused' = paused /\ checkpoint' = checkpoint]_vars

C24_Witness ==
    /\ spc = "done"
    /\ sKind = "history"
    /\ sOut.alert
    /\ sDropped # {}
    /\ ~paused
    /\ checkpoint # NoBlock

\* the query of the current chunk failed for the RETRY_LIMIT-th time
\* while the chunk size was above the floor
ChunkGaveUp == spc = "scan" /\ sChunk' # sChunk

\* C25: when a chunk fails the retry limit above the floor, the size is
\* halved and the scan stays at the same start block.
C25_HalvedChunkRestartsAtSameBlock ==
    [][ChunkGaveUp => sChunk' = ReducedChunk(sChunk) /\ sCur' = sCur]_vars

\* the scan stopped before the end of its range
ScanGaveUp == spc = "scan" /\ spc' = "done" /\ sResult' \in {"error", "partial"}

\* C26: a scan gives up only on a chunk that was queried at the floor size.
C26_GivesUpOnlyAtFloor ==
    [][ScanGaveUp => sChunk = MIN_BLOCK_CHUNK]_vars

\* C27: on floor exhaustion the history scan returns a failure without any
\* deposit, the CSV export returns the deposits of the chunks it completed.
C27_FloorExhaustionResults ==
    /\ spc = "done" /\ sResult = "error" =>
          sKind = "history" /\ ~sOut.alert /\ sOut.deposits = <<>>
    /\ spc = "done" /\ sResult = "partial" =>
          /\ sKind = "csv"
          /\ sOut.deposits = SelectSeq(sCollected, LAMBDA c : c[3] # "none")

C27_Witness ==
    /\ spc = "done"
    /\ sResult = "error"
    /\ \E i \in DOMAIN sCollected : sCollected[i][3] = "large"

(***************************************************************************)
(* Claims on the request helpers (SpecReq).                                *)
(***************************************************************************)
\* the attempts the helper may make, and the first of them that succeeds
AttemptsOf(call) == 1..call.limit
FirstOk(call) ==
    IF \E i \in AttemptsOf(call) : arg[i] = "ok"
    THEN MinOf({i \in AttemptsOf(call) : arg[i] = "ok"})
    ELSE 0

\* C19: make_request (5 attempts) and fetch_recent_transactions (4
\* attempts) never raise; they return at the first attempt that succeeds,
\* and return None, respectively [], when no attempt succeeds.
C19_RequestsNeverRaise ==
    ret.done =>
        LET call == ret.val
        IN  /\ call.result.outcome = "returned"
            /\ call.result.attempts <= call.limit
            /\ FirstOk(call) # 0 => call.result.attempts = FirstOk(call)
            /\ FirstOk(call) = 0 => call.result.value = call.unavailable

(***************************************************************************)
(* Claims on the scheduler's finally block (Spec, SpecDaily).              *)
(***************************************************************************)
TickBody == {"probe", "alert", "balance", "fetch", "cooldown"}

\* the last step was the tick leaving its try statement: by finishing the
\* gate without a submission, by a successful execution, on an observed
\* pause, after the circuit breaker, or by an exception
TickExited ==
    /\ ev.by = "tick"
    /\ \/ ev.kind \in {"reject", "error", "pause_detected"}
       \/ ev.kind = "exec" /\ ev.msg \in {"success", "reverted_alert"}

\* C21: on every exit path of the tick body the finally block runs next,
\* and a tick ends only by running it.
C21_EveryExitRunsFinalization ==
    /\ [](TickExited => tpc = "finally")
    /\ [][/\ (tpc \in TickBody /\ tpc' \notin TickBody => tpc' = "finally")
          /\ (tpc # "idle" /\ tpc' = "idle" =>
                 tpc = "finally" /\ ev'.kind \in {"finally", "daily_report"})]_vars

C21_Witness ==
    /\ tpc = "finally"
    /\ ev.kind = "exec"
    /\ ev.msg = "reverted_alert"

\* C28: in a tick whose probe alerted, paused is true from the alert on
\* until an operator resumes, and the tick calls execute_transaction only
\* if such a resume came after the alert.
C28_AlertingTickSubmitsNothing ==
    /\ [](tAlert = "alerted" => paused)
    /\ [](ev.kind = "exec" /\ ev.by = "tick" => tAlert # "alerted")

C28_Witness ==
    /\ tAlert = "alerted"
    /\ tpc = "finally"
    /\ ev.kind = "reject"
    /\ ev.by = "tick"
    /\ ev.msg = "paused"

\* C22: on every date on which a tick ran at or after 09:00 exactly one
\* daily summary was broadcast, and on no date more than one.
C22_OneDailySummaryPerDate ==
    \A d \in 0..MaxDay :
        /\ dailySent[d] <= 1
        /\ d \in ranAfter9 => dailySent[d] = 1

(***************************************************************************)
(* Claims on the calldata decoder (SpecDecode).                            *)
(***************************************************************************)
\* C23: decode_hex_data returns None for calldata whose selector is not
\* the selector of the two-uint256 function the bot executes.
C23_UnknownSelectorHasNoPayload ==
    ret.done /\ arg.selector # DelegateSelector => ~ret.val.ok

(***************************************************************************)
(* Claims on execute_transaction (SpecExec).                               *)
(***************************************************************************)
\* C29: within one tick at most 3 submission attempts are made, counting
\* those that fail when the transaction is sent.
C29_AtMostThreeSubmissionsPerTick == xSends <= MAX_ATTEMPTS

\* the record's hex calldata without its 0x prefix
WithoutPrefix(data) == IF data = NoneData THEN <<>> ELSE SubSeq(data, 3, Len(data))

\* C30: the arguments sent to execTransaction equal the fields of the
\* queue record, the data being the record's calldata without 0x.
C30_ArgumentsEqualRecord ==
    xArgs.sent =>
        /\ xArgs.to = xTx.to
        /\ xArgs.value = int(xTx.value)
        /\ xArgs.data = WithoutPrefix(xTx.data)
        /\ xArgs.operation = xTx.operation
        /\ xArgs.safeTxGas = xTx.safeTxGas
        /\ xArgs.baseGas = xTx.baseGas
        /\ xArgs.gasPrice = int(xTx.gasPrice)
        /\ xArgs.gasToken = xTx.gasToken
        /\ xArgs.refundReceiver = xTx.refundReceiver

(***************************************************************************)
(* Claims on the signature aggregation (SpecSig).                          *)
(***************************************************************************)
\* the confirmations of the record, whatever their order, listed by
\* ascending lower-cased owner address
ByOwner(confirmations) ==
    LET n == Len(confirmations)
        order == CHOOSE f \in [1..n -> 1..n] :
                     /\ \A i, j \in 1..n : i # j => f[i] # f[j]
                     /\ \A i \in 1..(n - 1) :
                            StrLess(lower(confirmations[f[i]].owner),
                                    lower(confirmations[f[i + 1]].owner))
    IN  [i \in 1..n |-> confirmations[order[i]]]

RECURSIVE SignatureBytes(_)
SignatureBytes(confirmations) ==
    IF confirmations = <<>>
    THEN <<>>
    ELSE LET signature == Head(confirmations).signature
         IN  SubSeq(signature, 3, Len(signature)) \o SignatureBytes(Tail(confirmations))

\* C31: the aggregated signature is the signatures of all confirmations of
\* the record, each once and without separators, in ascending order of
\* the lower-cased owner address, whatever the order of the confirmations.
C31_SignaturesJoinedByOwner ==
    ret.done => ret.val.signatures = SignatureBytes(ByOwner(arg))

C31_Witness ==
    /\ ret.done
    /\ Len(arg) = 3
    /\ arg[1].owner = <<"a", "B">>
    /\ arg[2].owner = <<"B", "a">>
    /\ arg[3].owner = <<"A", "A">>
    /\ \A i \in 1..3 : arg[i].signature # <<>>
    /\ arg[1].signature # arg[2].signature
    /\ arg[2].signature # arg[3].signature
    /\ arg[1].signature # arg[3].signature
    /\ ret.val.ok
    /\ ret.val.signatures = SignatureBytes(<<arg[3], arg[1], arg[2]>>)


(***************************************************************************)
(* Claims on the tick and the manual commands running together (Spec).     *)
(***************************************************************************)
\* a manual command has just called execute_transaction for the nonce the
\* tick is retrying, while the tick sleeps in its cooldown
CommandRaced ==
    /\ tpc = "cooldown"
    /\ ev.kind = "exec"
    /\ ev.by \in Variants
    /\ ev.tx.nonce = tNonce

\* C32: nothing keeps a manual command from submitting nonce n while the
\* tick is in the cooldown between two attempts for n; the tick's record
\* stays the one it fetched before its first attempt, and its next pass of
\* the loop, unless paused is set, submits that record again.
C32_TickResubmitsAfterManualSubmission ==
    /\ [][(tpc = "cooldown" /\ ev'.by \in Variants)
            => (ev'.kind = "exec" => cpc = "run")
               /\ UNCHANGED <<tpc, tTx, tNonce, tAttempts, tPolls, paused>>]_vars
    /\ [][(tpc = "cooldown" /\ tpc' = "cooldown") => tTx' = tTx /\ tNonce' = tNonce]_vars
    /\ [][(tpc = "cooldown" /\ ~paused /\ tPolls = CooldownPolls /\ TickStepped)
            => /\ ev'.kind = "exec"
               /\ ev'.by = "tick"
               /\ ev'.tx = TxView(tTx)
               /\ ev'.attempt = tAttempts + 1]_vars

C32_Witness ==
    /\ CommandRaced
    /\ ev.res = "ok"
    /\ tAttempts = 1
    /\ tPolls = CooldownPolls
    /\ ~paused

(***************************************************************************)
(* Claims on overlapping deposit probes (SpecOverlap).                     *)
(***************************************************************************)
\* the second of two overlapping probes writes and returns in this step
SecondSave == oFirst # NoBlock /\ \E p \in Probers : oPc[p] = "save" /\ oPc'[p] = "idle"

\* C33: when the report's probe and the tick's probe overlap, the stored
\* checkpoint after both have completed is not lower than it was after
\* the first of the two saves.
C33_OverlapKeepsCheckpoint ==
    [][SecondSave => checkpoint' >= oFirst]_vars

(***************************************************************************)
(* Claims on the record handed to execute_transaction (Spec).              *)
(***************************************************************************)
\* C34: the record a tick or a command passes to execute_transaction right
\* after its gate is the record the gate evaluated, the one the normalizer
\* selected for the nonce.
C34_SubmittedIsGateRecord ==
    (CalledExecute /\ GateRan) => ev.same

(***************************************************************************)
(* Claims on the blocks covered by consecutive probes (SpecProbe).         *)
(***************************************************************************)
\* C35: a probe that resolves its start block while a checkpoint is stored
\* starts its query range at the stored checkpoint plus one, and the
\* checkpoint a probe stores is never greater than the last block of its own
\* query range.
C35_NoBlockLeftUnscanned ==
    /\ [][(StartResolved /\ checkpoint # NoBlock)
            => pStart' = checkpoint + 1]_vars
    /\ [][(CheckSucceeded /\ ppc' = "idle" /\ checkpoint' # checkpoint)
            => checkpoint' <= pLatest]_vars

(***************************************************************************)
(* Claims on a tick whose deposit probe failed (Spec).                     *)
(***************************************************************************)
\* the tick's probe comes back failed in this step
ProbeFailsNow == tpc = "probe" /\ tAlert' = "failed"
\* the tick whose probe failed leaves the fetch of the queue in this step
FetchAfterFailedProbe == tpc = "fetch" /\ tAlert = "failed" /\ tpc' # "fetch"

\* C36: the step in which the tick's probe comes back failed leaves paused
\* as it is and takes the tick to the balance and the queue; unless an
\* exception ends the tick there, the tick then fetches the queue and runs
\* its pause check and gate as after any other probe: paused, it reports
\* that; not paused, it rejects with the gate's reason or calls
\* execute_transaction for the lowest nonce.
C36_FailedProbeDoesNotBlockTick ==
    /\ [][ProbeFailsNow => (paused' = paused /\ tpc' = "balance")]_vars
    /\ [][(tpc = "balance" /\ tAlert = "failed" /\ tpc' # "balance")
            => (tpc' = "fetch" \/ ev'.kind = "error")]_vars
    /\ [][(FetchAfterFailedProbe /\ ev'.kind # "error")
            => /\ ev'.by = "tick"
               /\ ev'.probeFailed
               /\ ev'.kind \in {"reject", "exec"}
               /\ paused => (ev'.kind = "reject" /\ ev'.msg = "paused")
               /\ (~paused /\ ev'.kind = "reject") => ev'.msg # "paused"
               /\ ev'.kind = "exec" => (~paused /\ ev'.attempt = 1)]_vars

C36_Witness ==
    /\ ev.kind = "exec"
    /\ ev.by = "tick"
    /\ ev.probeFailed
    /\ ev.res = "ok"
    /\ ~paused

(***************************************************************************)
(* Claims on attempts in which nothing was submitted (Spec).               *)
(***************************************************************************)
\* the tick's loop called execute_transaction and the call ended as `res`
TickAttemptEnded(res) == ev.kind = "exec" /\ ev.by = "tick" /\ ev.res = res

\* what the tick's loop does after a failed attempt: before the third, it
\* announces the retry and enters the cooldown with the attempt counted;
\* at the third, it sets paused and broadcasts the reverted alert
CountedAsFailed ==
    IF ev.attempt < MAX_ATTEMPTS
    THEN /\ ev.msg = "retrying"
         /\ tpc = "cooldown"
         /\ tAttempts = ev.attempt
    ELSE /\ ev.attempt = MAX_ATTEMPTS
         /\ ev.msg = "reverted_alert"
         /\ paused
         /\ tripped
         /\ tpc = "finally"

\* C37: an attempt of the tick's loop in which execute_transaction
\* returned None is counted like an attempt that reverted: it is announced
\* as a revert and retried after the cooldown, and the third failed attempt
\* in a row sets paused and broadcasts the reverted alert.
C37_NotSentCountsAsRevert ==
    /\ TickAttemptEnded("not_sent") => CountedAsFailed
    /\ TickAttemptEnded("reverted") => CountedAsFailed

\* the third attempt in a row failed, with nothing sent
C37_Witness ==
    /\ TickAttemptEnded("not_sent")
    /\ ev.attempt = MAX_ATTEMPTS
    /\ ev.msg = "reverted_alert"
    /\ paused
    /\ paused
    /\ ev.msg = "reverted_alert"

(***************************************************************************)
(* Claims on the manual commands' single attempt (Spec).                   *)
(***************************************************************************)
\* a manual command starts, is turned away, or runs to its end in this step
CommandStepped == cpc' # cpc \/ ev'.by \in Variants
\* a manual command calls execute_transaction in this step
CommandExecutes == ev'.kind = "exec" /\ ev'.by \in Variants

\* C38: no step of a manual command changes paused or the tick's attempt
\* counter; the step in which a command calls execute_transaction is the
\* last step of its invocation, whatever the call returned, so an
\* invocation calls it at most once and a new call needs a new invocation.
C38_CommandSubmitsOnceAndKeepsPaused ==
    /\ [][CommandStepped => (paused' = paused /\ tripped' = tripped
                             /\ tAttempts' = tAttempts)]_vars
    /\ [][CommandExecutes => /\ cpc = "run"
                             /\ ev'.by = cVariant
                             /\ ev'.attempt = 1
                             /\ cpc' = "idle"
                             /\ cVariant' = "none"]_vars
    /\ [][(cpc = "idle" /\ CommandStepped) => ev'.kind # "exec"]_vars

\* a command's submission reverted and the bot is still not paused
C38_Witness ==
    /\ ev.kind = "exec"
    /\ ev.by \in Variants
    /\ ev.res = "reverted"
    /\ cpc = "idle"
    /\ ~paused

(***************************************************************************)
(* Claims on the termination of the chunked scans (SpecScanLive).          *)
(***************************************************************************)
\* a request of a scan under way is answered in this step
Queried == spc = "scan" /\ (spc' # spc \/ sCur' # sCur \/ sRetries' # sRetries
                            \/ sCollected' # sCollected)
\* the pass of the outer loop goes on: the inner loop retries the chunk
PassGoesOn == spc' = "scan" /\ sCur' = sCur

\* C39: in both chunked scans a request that is answered either ends the
\* scan, or ends the pass of the outer loop with a strictly greater start
\* block, or is retried within the pass with the retry counter one higher
\* and below RETRY_LIMIT; the start block of a scan under way never exceeds
\* the head, and every scan under way ends.
C39_ChunkedScansTerminate ==
    /\ [][Queried => \/ spc' = "done"
                     \/ spc' = "scan" /\ sCur' > sCur /\ sRetries' = 0
                     \/ PassGoesOn /\ sRetries' = sRetries + 1
                                   /\ sRetries' < RETRY_LIMIT]_vars
    /\ [](spc = "scan" => (sStart <= sCur /\ sCur <= sLatest))
    /\ (spc = "scan" ~> spc = "done")

\* a scan of more than two chunks ended after a chunk had failed
C39_Witness ==
    /\ spc = "done"
    /\ sKind \in ScanKinds
    /\ sResult = "ok"
    /\ sDropped # {}
    /\ Len(sCollected) >= 2
    /\ sCur = sLatest + 1

=============================================================================
